---- MODULE Spec2Model ----
(***************************************************************************)
(* Model of repo/installer.go of glide: Installer.Install, the            *)
(* ConcurrentUpdate worker pool, depsFromPackages and the                  *)
(* MissingPackageHandler.  Each has a specification of its own: PoolSpec   *)
(* (FairPoolSpec with scheduling fairness), AggSpec, HandlerSpec and       *)
(* InstallSpec.                                                            *)
(***************************************************************************)
EXTENDS Integers, Sequences, FiniteSets, TLC

(* ---------------------------------------------------------------------- *)
(* Bounds                                                                  *)
(* ---------------------------------------------------------------------- *)

\* number of pool workers (concurrentWorkers, a package variable set outside
\* installer.go); the model takes a small value
W == 2
\* longest dependency list handed to a stand-alone ConcurrentUpdate
MaxDeps == 3
\* longest package list handed to depsFromPackages
MaxPkgs == 3
\* longest Imports / DevImports list of a lock file
MaxLock == 2
\* number of handler calls the resolver makes in one walk
MaxCalls == 2
\* longest Imports / DevImports list of a config handed to Checkout
MaxConf == 2
\* number of times Checkout is run on one config
MaxRuns == 2

(* ---------------------------------------------------------------------- *)
(* Value domains                                                           *)
(* ---------------------------------------------------------------------- *)

DepNames == {"a", "b"}
Versions == {"v1"}
\* the two ConcurrentUpdate calls of one run (Install makes two)
Calls == {1, 2}
Workers == 1..W
\* goroutine slots; one more than W, so that a pool starting a worker too many
\* is representable
WorkerIds == 1..(W + 1)

Nil == "nil"
ErrFetch == "fetch failed"
ErrVendor == "no vendor dir"

\* all sequences over S of length at most n
RECURSIVE SeqsUpTo(_, _)
SeqsUpTo(S, n) ==
  IF n = 0 THEN {<<>>}
  ELSE LET shorter == SeqsUpTo(S, n - 1)
       IN shorter \cup {Append(s, x) : s \in {t \in shorter : Len(t) = n - 1}, x \in S}

\* dependency records a stand-alone pool run is given
PoolDeps == [Name : DepNames, Reference : {""}]

\* package paths, as sequences of path segments: a repository root followed
\* by an optional sub-package
Roots == {"a", "b", "c"}
SubPkgs == {"sub1", "sub2"}
PkgPaths == {<<r>> : r \in Roots} \cup {<<r, sp>> : r \in Roots, sp \in SubPkgs}
\* the empty string
Empty == <<>>

VARIABLES
  \* ---- ConcurrentUpdate, one instance per call c \in Calls ----
  cuDeps,      \* cuDeps[c]: the deps argument
  cpc,         \* cpc[c]: position of the calling goroutine
  spawned,     \* spawned[c]: workers started so far (ii of the first loop)
  idx,         \* idx[c]: number of deps whose loop iteration is complete
  wg,          \* wg[c]: the WaitGroup counter
  inq,         \* inq[c]: buffered channel `in`, positions of cuDeps[c]
  done,        \* done[c]: number of signals buffered in channel `done`
  stopsSent,   \* stopsSent[c]: ii of the last loop
  wpc,         \* wpc[c][w]: position of worker goroutine w
  wdep,        \* wdep[c][w]: position in cuDeps[c] of the dep the worker holds
  started,     \* started[c][k]: VcsUpdate calls begun on cuDeps[c][k]
  finished,    \* finished[c][k]: VcsUpdate calls returned on cuDeps[c][k]
  stopsTaken,  \* stopsTaken[c][w]: signals worker w received from `done`
  warned,      \* warned[c]: positions logged by msg.Warn
  \* ---- depsFromPackages ----
  pkgs,        \* the pkgs argument
  aggDeps,     \* the returned []*cfg.Dependency
  aggPc,       \* "idle" | "returned"
  \* ---- MissingPackageHandler ----
  destination, \* m.destination
  vcsGets,     \* the VcsGet calls made so far: [Name, dest, err]
  hret,        \* the last handler call and what it returned
  hcalls,      \* handler calls made by the resolver
  \* ---- Installer.Install ----
  lock,        \* the lock argument: [Imports, DevImports]
  newConf,     \* newConf: [Imports, DevImports]
  ipc,         \* position of Install
  iret,        \* the error Install returned
  \* ---- Installer.Checkout ----
  fs,          \* the paths that exist on disk (what os.Stat finds)
  kconf,       \* the conf argument: [Imports, DevImports]
  kdev,        \* the useDev argument
  kpc,         \* position of Checkout: the list checkoutImports walks
  ki,          \* position in that list of the entry examined next
  krun,        \* number of the current Checkout run
  krets,       \* krets[r]: the error run r returned
  kgets,       \* the VcsGet calls made by checkoutImports
  \* ---- Installer.Update ----
  uconf,       \* the conf argument
  upc,         \* position of Update
  walk,        \* the import paths the resolver's walk has reached so far
  packages,    \* what allPackages returned
  udeps,       \* deps
  uerr,        \* err
  uret,        \* what Update returned: [lock, err]
  \* ---- which operation the run performs ----
  op,
  \* ---- the external VcsUpdate ----
  hang         \* position in cuDeps[1] of the entry whose VcsUpdate never
               \* returns; 0 when every VcsUpdate returns

poolVars == <<cuDeps, cpc, spawned, idx, wg, inq, done, stopsSent, wpc, wdep,
              started, finished, stopsTaken, warned>>

\* everything a step of the pool leaves alone
aggVars == <<pkgs, aggDeps, aggPc>>
handlerVars == <<destination, vcsGets, hret, hcalls>>
installVars == <<lock, newConf, ipc, iret>>
checkoutVars == <<fs, kconf, kdev, kpc, ki, krun, krets, kgets>>
updateVars == <<uconf, upc, walk, packages, udeps, uerr, uret>>
nonPoolVars == <<aggVars, handlerVars, installVars, checkoutVars, updateVars,
                 op, hang>>

vars == <<poolVars, nonPoolVars>>

(* ---------------------------------------------------------------------- *)
(* depsFromPackages (installer.go 251-278)                                 *)
(* ---------------------------------------------------------------------- *)

\* util.NormalizeName: (repository root, sub-package suffix) of an import
\* path.  The root is the leading segment, the suffix whatever remains.
NormalizeName(name) == <<SubSeq(name, 1, 1), SubSeq(name, 2, Len(name))>>

\* the loop body with the test of `seen` dropped: every path makes a record
DepsStepNoSeen(acc, p) ==
  LET rr == NormalizeName(p)[1]
      sp == NormalizeName(p)[2]
      subpkg == IF sp # Empty THEN <<sp>> ELSE <<>>
      dd == [Name |-> rr, Subpackages |-> subpkg]
  IN [deps |-> Append(acc.deps, dd),
      seen |-> [r \in DOMAIN acc.seen \cup {rr} |-> Len(acc.deps) + 1]]

\* the loop body appending a suffix only when the record does not hold it yet
DepsStepDeDupe(acc, p) ==
  LET rr == NormalizeName(p)[1]
      sp == NormalizeName(p)[2]
  IN IF rr \notin DOMAIN acc.seen
       THEN LET subpkg == IF sp # Empty THEN <<sp>> ELSE <<>>
                dd == [Name |-> rr, Subpackages |-> subpkg]
            IN [deps |-> Append(acc.deps, dd),
                seen |-> [r \in DOMAIN acc.seen \cup {rr} |->
                            IF r = rr THEN Len(acc.deps) + 1 ELSE acc.seen[r]]]
       ELSE IF sp # Empty
                 /\ \A j \in DOMAIN acc.deps[acc.seen[rr]].Subpackages :
                       acc.deps[acc.seen[rr]].Subpackages[j] # sp
         THEN [acc EXCEPT !.deps[acc.seen[rr]].Subpackages = Append(@, sp)]
         ELSE acc

\* one iteration of `for _, p := range pkgs`; acc.seen maps a root to the
\* position in acc.deps of the record the map's pointer refers to
DepsStep(acc, p) ==
  LET rr == NormalizeName(p)[1]
      sp == NormalizeName(p)[2]
  IN IF rr \notin DOMAIN acc.seen
       THEN LET subpkg == IF sp # Empty THEN <<sp>> ELSE <<>>
                dd == [Name |-> rr, Subpackages |-> subpkg]
            IN [deps |-> Append(acc.deps, dd),
                seen |-> [r \in DOMAIN acc.seen \cup {rr} |->
                            IF r = rr THEN Len(acc.deps) + 1 ELSE acc.seen[r]]]
       ELSE IF sp # Empty
         THEN [acc EXCEPT !.deps[acc.seen[rr]].Subpackages = Append(@, sp)]
         ELSE acc

RECURSIVE DepsLoop(_, _, _)
DepsLoop(ps, k, acc) ==
  IF k > Len(ps) THEN acc ELSE DepsLoop(ps, k + 1, DepsStep(acc, ps[k]))

depsFromPackages(ps) == DepsLoop(ps, 1, [deps |-> <<>>, seen |-> <<>>]).deps

AggIdle ==
  /\ pkgs = <<>>
  /\ aggDeps = <<>>
  /\ aggPc = "idle"

\* a call deps := depsFromPackages(packages)
AggCall(ps) ==
  /\ aggPc = "idle"
  /\ pkgs' = ps
  /\ aggDeps' = depsFromPackages(ps)
  /\ aggPc' = "returned"

(* ---------------------------------------------------------------------- *)
(* MissingPackageHandler (installer.go 280-304)                            *)
(* ---------------------------------------------------------------------- *)

\* filepath.Clean on a list of segments: "." elements are dropped
RECURSIVE Clean(_)
Clean(path) ==
  IF path = <<>> THEN <<>>
  ELSE IF Head(path) = "." THEN Clean(Tail(path))
  ELSE <<Head(path)>> \o Clean(Tail(path))

\* filepath.Join(a, b)
filepathJoin(a, b) == Clean(a \o b)

NoCall == [op |-> "none", pkg |-> <<>>, handled |-> FALSE, err |-> Nil]

HandlerIdle ==
  /\ destination = filepathJoin(<<".">>, <<"vendor">>)
  /\ vcsGets = <<>>
  /\ hret = NoCall
  /\ hcalls = 0

\* NotFound answering handled=true whatever VcsGet returned
NotFoundAlwaysHandled(pkg, err) ==
  LET d == [Name |-> pkg]
      dest == filepathJoin(destination, pkg)
  IN /\ vcsGets' = Append(vcsGets, [Name |-> d.Name, dest |-> dest, err |-> err])
     /\ hret' = [op |-> "NotFound", pkg |-> pkg, handled |-> TRUE, err |-> Nil]
     /\ hcalls' = hcalls + 1
     /\ UNCHANGED destination

\* m.NotFound(pkg), VcsGet returning err
NotFound(pkg, err) ==
  LET d == [Name |-> pkg]
      dest == filepathJoin(destination, pkg)
  IN /\ vcsGets' = Append(vcsGets, [Name |-> d.Name, dest |-> dest, err |-> err])
     /\ hret' = IF err # Nil
                 THEN [op |-> "NotFound", pkg |-> pkg, handled |-> FALSE, err |-> err]
                 ELSE [op |-> "NotFound", pkg |-> pkg, handled |-> TRUE, err |-> Nil]
     /\ hcalls' = hcalls + 1
     /\ UNCHANGED destination

\* m.OnGopath(pkg)
OnGopath(pkg) ==
  /\ hret' = [op |-> "OnGopath", pkg |-> pkg, handled |-> FALSE, err |-> Nil]
  /\ hcalls' = hcalls + 1
  /\ UNCHANGED <<destination, vcsGets>>

(* ---------------------------------------------------------------------- *)
(* Installer.Install (installer.go 41-89), the pool calls excepted         *)
(* ---------------------------------------------------------------------- *)

\* entries of a lock file
LockEntries == [Name : DepNames, Version : Versions]
Locks == [Imports : SeqsUpTo(LockEntries, MaxLock),
          DevImports : SeqsUpTo(LockEntries, MaxLock)]

\* the cfg.Dependency made from lock entry v
FromLock(v) == [Name |-> v.Name, Reference |-> v.Version]

\* cfg.Dependencies.DeDupe: of the records with one name the first is kept
RECURSIVE DeDupe(_)
DeDupe(deps) ==
  IF deps = <<>> THEN <<>>
  ELSE LET front == DeDupe(SubSeq(deps, 1, Len(deps) - 1))
           last == deps[Len(deps)]
       IN IF \E k \in DOMAIN front : front[k].Name = last.Name
            THEN front
            ELSE Append(front, last)

NoConf == [Imports |-> <<>>, DevImports |-> <<>>]

InstallIdle ==
  /\ lock = NoConf
  /\ newConf = NoConf
  /\ ipc = "idle"
  /\ iret = Nil

\* i.Install(lock, conf) is called; cwd, err := gpath.Vendor() returns err
InstallVendor(lk, err) ==
  /\ ipc = "idle"
  /\ lock' = lk
  /\ IF err # Nil
       THEN ipc' = "returned" /\ iret' = err
       ELSE ipc' = "project" /\ iret' = iret
  /\ UNCHANGED newConf

\* newConf is filled from the lock and de-duplicated
InstallProject ==
  /\ ipc = "project"
  /\ newConf' = [Imports |-> DeDupe([k \in DOMAIN lock.Imports |->
                                        FromLock(lock.Imports[k])]),
                 DevImports |-> DeDupe([k \in DOMAIN lock.DevImports |->
                                           FromLock(lock.DevImports[k])])]
  /\ ipc' = "check"
  /\ UNCHANGED <<lock, iret>>

(* ---------------------------------------------------------------------- *)
(* Installer.Checkout and checkoutImports (installer.go 95-128)            *)
(* ---------------------------------------------------------------------- *)

Confs == [Imports : SeqsUpTo(PoolDeps, MaxConf),
          DevImports : SeqsUpTo(PoolDeps, MaxConf)]

\* dest := "./vendor"
CheckoutDest == <<".", "vendor">>

\* filepath.Join(dest, c.Name)
Target(c) == filepathJoin(CheckoutDest, <<c.Name>>)

CheckoutIdle ==
  /\ fs = {}
  /\ kconf = NoConf
  /\ kdev = FALSE
  /\ kpc = "idle"
  /\ ki = 0
  /\ krun = 0
  /\ krets = <<>>
  /\ kgets = <<>>

\* the list checkoutImports is walking
CheckoutList == IF kpc = "imports" THEN kconf.Imports ELSE kconf.DevImports

\* i.Checkout(conf, useDev) is called: i.checkoutImports(conf.Imports, dest)
CheckoutCall(conf, useDev) ==
  /\ kpc = "idle"
  /\ kconf' = conf
  /\ kdev' = useDev
  /\ krun' = 1
  /\ kpc' = "imports"
  /\ ki' = 1
  /\ UNCHANGED <<fs, krets, kgets>>

\* Checkout is called again with the same conf and useDev
CheckoutAgain ==
  /\ kpc = "returned"
  /\ krun < MaxRuns
  /\ krun' = krun + 1
  /\ kpc' = "imports"
  /\ ki' = 1
  /\ UNCHANGED <<fs, kconf, kdev, krets, kgets>>

\* the loop body without the os.Stat test: every entry is fetched
CheckoutStepNoStat(err, partial) ==
  /\ kpc \in {"imports", "devImports"}
  /\ ki <= Len(CheckoutList)
  /\ LET c == CheckoutList[ki]
         target == Target(c)
     IN /\ kgets' = Append(kgets, [run |-> krun, list |-> kpc, pos |-> ki,
                                   Name |-> c.Name, target |-> target,
                                   err |-> err])
        /\ IF err # Nil
             THEN /\ fs' = IF partial THEN fs \cup {target} ELSE fs
                  /\ krets' = Append(krets, err)
                  /\ kpc' = "returned"
                  /\ ki' = ki
             ELSE /\ fs' = fs \cup {target}
                  /\ ki' = ki + 1
                  /\ UNCHANGED <<kpc, krets>>
  /\ UNCHANGED <<kconf, kdev, krun>>

\* the loop body going on to the next entry after a failed VcsGet
CheckoutStepGoOn(err, partial) ==
  /\ kpc \in {"imports", "devImports"}
  /\ ki <= Len(CheckoutList)
  /\ LET c == CheckoutList[ki]
         target == Target(c)
     IN IF target \in fs
          THEN /\ ki' = ki + 1
               /\ UNCHANGED <<fs, kpc, krets, kgets>>
          ELSE /\ kgets' = Append(kgets, [run |-> krun, list |-> kpc, pos |-> ki,
                                          Name |-> c.Name, target |-> target,
                                          err |-> err])
               /\ fs' = IF err = Nil \/ partial THEN fs \cup {target} ELSE fs
               /\ ki' = ki + 1
               /\ UNCHANGED <<kpc, krets>>
  /\ UNCHANGED <<kconf, kdev, krun>>

\* one iteration of `for _, c := range deps` in checkoutImports; VcsGet, when
\* called, returns err, and a failed VcsGet leaves the target behind or not
CheckoutStep(err, partial) ==
  /\ kpc \in {"imports", "devImports"}
  /\ ki <= Len(CheckoutList)
  /\ LET c == CheckoutList[ki]
         target == Target(c)
     IN IF target \in fs
          THEN /\ ki' = ki + 1
               /\ UNCHANGED <<fs, kpc, krets, kgets>>
          ELSE /\ kgets' = Append(kgets, [run |-> krun, list |-> kpc, pos |-> ki,
                                          Name |-> c.Name, target |-> target,
                                          err |-> err])
               /\ IF err # Nil
                    THEN /\ fs' = IF partial THEN fs \cup {target} ELSE fs
                         /\ krets' = Append(krets, err)
                         /\ kpc' = "returned"
                         /\ ki' = ki
                    ELSE /\ fs' = fs \cup {target}
                         /\ ki' = ki + 1
                         /\ UNCHANGED <<kpc, krets>>
  /\ UNCHANGED <<kconf, kdev, krun>>

\* the end of a list with the dev-imports walked whatever useDev says
CheckoutListEndAlwaysDev ==
  /\ kpc \in {"imports", "devImports"}
  /\ ki > Len(CheckoutList)
  /\ IF kpc = "imports"
       THEN /\ kpc' = "devImports"
            /\ ki' = 1
            /\ krets' = krets
       ELSE /\ kpc' = "returned"
            /\ ki' = ki
            /\ krets' = Append(krets, Nil)
  /\ UNCHANGED <<fs, kconf, kdev, krun, kgets>>

\* checkoutImports returns nil: Checkout goes on to the dev-imports when
\* useDev is set and returns nil otherwise
CheckoutListEnd ==
  /\ kpc \in {"imports", "devImports"}
  /\ ki > Len(CheckoutList)
  /\ IF kpc = "imports" /\ kdev
       THEN /\ kpc' = "devImports"
            /\ ki' = 1
            /\ krets' = krets
       ELSE /\ kpc' = "returned"
            /\ ki' = ki
            /\ krets' = Append(krets, Nil)
  /\ UNCHANGED <<fs, kconf, kdev, krun, kgets>>

(* ---------------------------------------------------------------------- *)
(* Installer.Update and allPackages (installer.go 137-173, 211-230), the   *)
(* pool call excepted                                                      *)
(* ---------------------------------------------------------------------- *)

ErrResolver == "no resolver"
ErrWalk == "walk failed"
ErrHash == "hash failed"

\* the configs Update is given: no import, or one
UpdateConfs == [Imports : {<<>>} \cup {<<d>> : d \in PoolDeps},
                DevImports : {<<>>}]

\* the import paths a walk reaches
WalkPaths == {<<"a">>, <<"a", "sub1">>, <<"b">>}

\* vdir: the vendor directory, with the separator added to it
Vdir == <<"vendor">>

\* strings.TrimPrefix(s, prefix)
TrimPrefix(s, prefix) ==
  IF Len(s) >= Len(prefix) /\ SubSeq(s, 1, Len(prefix)) = prefix
    THEN SubSeq(s, Len(prefix) + 1, Len(s))
    ELSE s

\* the lists ResolveAll may return for the paths ps: each path as it is or
\* as a path below the vendor directory
Resolved(ps) ==
  {ll \in [DOMAIN ps -> WalkPaths \cup {Vdir \o q : q \in WalkPaths}] :
     \A k \in DOMAIN ps : ll[k] \in {ps[k], Vdir \o ps[k]}}

\* conf.Hash(): an opaque fingerprint of the configuration
Hash(conf) == <<"hash", conf>>

\* cfg.NewLockfile(deps, hash): the dependency list and the hash
NewLockfile(ds, hash) == [Imports |-> ds, Hash |-> hash]

NoLock == [Imports |-> <<>>, Hash |-> <<>>]
NoRet == [lock |-> NoLock, err |-> Nil]

UpdateIdle ==
  /\ uconf = NoConf
  /\ upc = "idle"
  /\ walk = <<>>
  /\ packages = <<>>
  /\ udeps = <<>>
  /\ uerr = Nil
  /\ uret = NoRet

\* msg.Die: the error is printed and the process exits
msgDie == upc' = "died"

\* i.Update(conf) is called; dependency.NewResolver(base) returns err;
\* allPackages returns at once when conf.Imports is empty, and when
\* gpath.Vendor() fails
UpdateCall(conf, err, vendorErr) ==
  /\ upc = "idle"
  /\ uconf' = conf
  /\ IF err # Nil
       THEN /\ uerr' = err
            /\ msgDie
       ELSE IF Len(conf.Imports) = 0
         THEN /\ uerr' = Nil
              /\ upc' = "aggregate"
         ELSE IF vendorErr # Nil
           THEN /\ uerr' = vendorErr
                /\ msgDie
           ELSE /\ uerr' = Nil
                /\ upc' = "resolving"
  /\ UNCHANGED <<walk, packages, udeps, uret>>

\* the walk reaches the import path p: the resolver lists every path once,
\* where it discovers it
WalkFound(p) ==
  /\ upc = "resolving"
  /\ Len(walk) < MaxPkgs
  /\ \A k \in DOMAIN walk : walk[k] # p
  /\ walk' = Append(walk, p)
  /\ UNCHANGED <<uconf, upc, packages, udeps, uerr, uret>>

\* res.ResolveAll(deps) returns err; the vendor prefix is trimmed from what
\* it returned, and a failure is fatal
WalkEndIgnoreErr(ll, err) ==
  /\ upc = "resolving"
  /\ uerr' = err
  /\ packages' = [k \in DOMAIN ll |-> TrimPrefix(ll[k], Vdir)]
  /\ upc' = "aggregate"
  /\ UNCHANGED <<uconf, walk, udeps, uret>>

WalkEnd(ll, err) ==
  /\ upc = "resolving"
  /\ uerr' = err
  /\ IF err # Nil
       THEN /\ msgDie
            /\ packages' = packages
       ELSE /\ packages' = [k \in DOMAIN ll |-> TrimPrefix(ll[k], Vdir)]
            /\ upc' = "aggregate"
  /\ UNCHANGED <<uconf, walk, udeps, uret>>

\* UpdateFinish returning an error when an update has failed
UpdateFinishStrict(err) ==
  /\ upc = "pool"
  /\ cpc[1] = "returned"
  /\ upc' = "returned"
  /\ uerr' = err
  /\ uret' = IF err # Nil \/ warned[1] # {}
              THEN [lock |-> NoLock, err |-> ErrHash]
              ELSE [lock |-> NewLockfile(udeps, Hash(uconf)), err |-> Nil]
  /\ UNCHANGED <<uconf, walk, packages, udeps>>

\* the pool call has returned; conf.Hash() returns err;
\* return cfg.NewLockfile(deps, hash), nil
UpdateFinish(err) ==
  /\ upc = "pool"
  /\ cpc[1] = "returned"
  /\ upc' = "returned"
  /\ uerr' = err
  /\ uret' = IF err # Nil
              THEN [lock |-> NoLock, err |-> err]
              ELSE [lock |-> NewLockfile(udeps, Hash(uconf)), err |-> Nil]
  /\ UNCHANGED <<uconf, walk, packages, udeps>>

(* ---------------------------------------------------------------------- *)
(* ConcurrentUpdate (installer.go 176-208)                                 *)
(* ---------------------------------------------------------------------- *)

PoolIdle ==
  /\ cuDeps = [c \in Calls |-> <<>>]
  /\ cpc = [c \in Calls |-> "idle"]
  /\ spawned = [c \in Calls |-> 0]
  /\ idx = [c \in Calls |-> 0]
  /\ wg = [c \in Calls |-> 0]
  /\ inq = [c \in Calls |-> <<>>]
  /\ done = [c \in Calls |-> 0]
  /\ stopsSent = [c \in Calls |-> 0]
  /\ wpc = [c \in Calls |-> [w \in WorkerIds |-> "none"]]
  /\ wdep = [c \in Calls |-> [w \in WorkerIds |-> 0]]
  /\ started = [c \in Calls |-> <<>>]
  /\ finished = [c \in Calls |-> <<>>]
  /\ stopsTaken = [c \in Calls |-> [w \in WorkerIds |-> 0]]
  /\ warned = [c \in Calls |-> {}]

\* entry of ConcurrentUpdate(deps, cwd, i): the channels and the WaitGroup
\* are made
CUEnter(c, deps) ==
  /\ cpc[c] = "idle"
  /\ cuDeps' = [cuDeps EXCEPT ![c] = deps]
  /\ cpc' = [cpc EXCEPT ![c] = "spawn"]
  /\ started' = [started EXCEPT ![c] = [k \in 1..Len(deps) |-> 0]]
  /\ finished' = [finished EXCEPT ![c] = [k \in 1..Len(deps) |-> 0]]
  /\ UNCHANGED <<spawned, idx, wg, inq, done, stopsSent, wpc, wdep,
                 stopsTaken, warned>>

\* Spawn with the loop bound off by one (ii <= concurrentWorkers)
SpawnOneTooMany(c) ==
  /\ cpc[c] = "spawn"
  /\ IF spawned[c] <= W
       THEN /\ spawned' = [spawned EXCEPT ![c] = @ + 1]
            /\ wpc' = [wpc EXCEPT ![c][spawned[c] + 1] = "select"]
            /\ cpc' = cpc
       ELSE /\ cpc' = [cpc EXCEPT ![c] = "range"]
            /\ UNCHANGED <<spawned, wpc>>
  /\ UNCHANGED <<cuDeps, idx, wg, inq, done, stopsSent, wdep, started,
                 finished, stopsTaken, warned>>

\* Spawn with a loop that starts one worker only
SpawnSingle(c) ==
  /\ cpc[c] = "spawn"
  /\ IF spawned[c] < 1
       THEN /\ spawned' = [spawned EXCEPT ![c] = @ + 1]
            /\ wpc' = [wpc EXCEPT ![c][spawned[c] + 1] = "select"]
            /\ cpc' = cpc
       ELSE /\ cpc' = [cpc EXCEPT ![c] = "range"]
            /\ UNCHANGED <<spawned, wpc>>
  /\ UNCHANGED <<cuDeps, idx, wg, inq, done, stopsSent, wdep, started,
                 finished, stopsTaken, warned>>

\* for ii := 0; ii < concurrentWorkers; ii++ { go func ... }
Spawn(c) ==
  /\ cpc[c] = "spawn"
  /\ IF spawned[c] < W
       THEN /\ spawned' = [spawned EXCEPT ![c] = @ + 1]
            /\ wpc' = [wpc EXCEPT ![c][spawned[c] + 1] = "select"]
            /\ cpc' = cpc
       ELSE /\ cpc' = [cpc EXCEPT ![c] = "range"]
            /\ UNCHANGED <<spawned, wpc>>
  /\ UNCHANGED <<cuDeps, idx, wg, inq, done, stopsSent, wdep, started,
                 finished, stopsTaken, warned>>

\* WgAdd with the wg.Add(1) left out
WgAddNoCount(c) ==
  /\ cpc[c] = "range"
  /\ IF idx[c] < Len(cuDeps[c])
       THEN cpc' = [cpc EXCEPT ![c] = "send"]
       ELSE cpc' = [cpc EXCEPT ![c] = "wait"]
  /\ UNCHANGED <<cuDeps, spawned, idx, wg, inq, done, stopsSent, wpc, wdep,
                 started, finished, stopsTaken, warned>>

\* for _, dep := range deps { wg.Add(1) ...
WgAdd(c) ==
  /\ cpc[c] = "range"
  /\ IF idx[c] < Len(cuDeps[c])
       THEN /\ wg' = [wg EXCEPT ![c] = @ + 1]
            /\ cpc' = [cpc EXCEPT ![c] = "send"]
       ELSE /\ cpc' = [cpc EXCEPT ![c] = "wait"]
            /\ wg' = wg
  /\ UNCHANGED <<cuDeps, spawned, idx, inq, done, stopsSent, wpc, wdep,
                 started, finished, stopsTaken, warned>>

\* ... in <- dep }: blocks while the buffer holds concurrentWorkers items
SendDep(c) ==
  /\ cpc[c] = "send"
  /\ Len(inq[c]) < W
  /\ inq' = [inq EXCEPT ![c] = Append(@, idx[c] + 1)]
  /\ idx' = [idx EXCEPT ![c] = @ + 1]
  /\ cpc' = [cpc EXCEPT ![c] = "range"]
  /\ UNCHANGED <<cuDeps, spawned, wg, done, stopsSent, wpc, wdep, started,
                 finished, stopsTaken, warned>>

\* WgWait that does not wait for the counter to reach zero
WgWaitNoBlock(c) ==
  /\ cpc[c] = "wait"
  /\ cpc' = [cpc EXCEPT ![c] = "stop"]
  /\ UNCHANGED <<cuDeps, spawned, idx, wg, inq, done, stopsSent, wpc, wdep,
                 started, finished, stopsTaken, warned>>

\* wg.Wait()
WgWait(c) ==
  /\ cpc[c] = "wait"
  /\ wg[c] = 0
  /\ cpc' = [cpc EXCEPT ![c] = "stop"]
  /\ UNCHANGED <<cuDeps, spawned, idx, wg, inq, done, stopsSent, wpc, wdep,
                 started, finished, stopsTaken, warned>>

\* for ii := 0; ii < concurrentWorkers; ii++ { done <- struct{}{} }
SendStop(c) ==
  /\ cpc[c] = "stop"
  /\ IF stopsSent[c] < W
       THEN /\ done[c] < W
            /\ done' = [done EXCEPT ![c] = @ + 1]
            /\ stopsSent' = [stopsSent EXCEPT ![c] = @ + 1]
            /\ cpc' = cpc
       ELSE /\ cpc' = [cpc EXCEPT ![c] = "returned"]
            /\ UNCHANGED <<done, stopsSent>>
  /\ UNCHANGED <<cuDeps, spawned, idx, wg, inq, wpc, wdep, started, finished,
                 stopsTaken, warned>>

\* WorkerRecv taking the entry queued last instead of the one queued first
WorkerRecvLast(c, w) ==
  /\ wpc[c][w] = "select"
  /\ inq[c] # <<>>
  /\ inq' = [inq EXCEPT ![c] = SubSeq(@, 1, Len(@) - 1)]
  /\ wdep' = [wdep EXCEPT ![c][w] = inq[c][Len(inq[c])]]
  /\ started' = [started EXCEPT ![c][inq[c][Len(inq[c])]] = @ + 1]
  /\ wpc' = [wpc EXCEPT ![c][w] = "update"]
  /\ UNCHANGED <<cuDeps, cpc, spawned, idx, wg, done, stopsSent, finished,
                 stopsTaken, warned>>

\* select { case dep := <-ch: VcsUpdate(dep, cwd, i) is entered
WorkerRecv(c, w) ==
  /\ wpc[c][w] = "select"
  /\ inq[c] # <<>>
  /\ inq' = [inq EXCEPT ![c] = Tail(@)]
  /\ wdep' = [wdep EXCEPT ![c][w] = Head(inq[c])]
  /\ started' = [started EXCEPT ![c][Head(inq[c])] = @ + 1]
  /\ wpc' = [wpc EXCEPT ![c][w] = "update"]
  /\ UNCHANGED <<cuDeps, cpc, spawned, idx, wg, done, stopsSent, finished,
                 stopsTaken, warned>>

\* UpdateReturn where a failed update skips wg.Done() and goes back to the
\* select
UpdateReturnSkipDone(c, w, err) ==
  /\ wpc[c][w] = "update"
  /\ finished' = [finished EXCEPT ![c][wdep[c][w]] = @ + 1]
  /\ warned' = IF err # Nil THEN [warned EXCEPT ![c] = @ \cup {wdep[c][w]}]
               ELSE warned
  /\ wpc' = [wpc EXCEPT ![c][w] = IF err # Nil THEN "select" ELSE "wgdone"]
  /\ UNCHANGED <<cuDeps, cpc, spawned, idx, wg, inq, done, stopsSent, wdep,
                 started, stopsTaken>>

\* VcsUpdate returns err; if err != nil { msg.Warn(...) }
UpdateReturn(c, w, err) ==
  /\ wpc[c][w] = "update"
  /\ finished' = [finished EXCEPT ![c][wdep[c][w]] = @ + 1]
  /\ warned' = IF err # Nil THEN [warned EXCEPT ![c] = @ \cup {wdep[c][w]}]
               ELSE warned
  /\ wpc' = [wpc EXCEPT ![c][w] = "wgdone"]
  /\ UNCHANGED <<cuDeps, cpc, spawned, idx, wg, inq, done, stopsSent, wdep,
                 started, stopsTaken>>

\* WgDone taking two from the counter
WgDoneTwice(c, w) ==
  /\ wpc[c][w] = "wgdone"
  /\ wg' = [wg EXCEPT ![c] = @ - 2]
  /\ wdep' = [wdep EXCEPT ![c][w] = 0]
  /\ wpc' = [wpc EXCEPT ![c][w] = "select"]
  /\ UNCHANGED <<cuDeps, cpc, spawned, idx, inq, done, stopsSent, started,
                 finished, stopsTaken, warned>>

\* wg.Done(), then back to the select
WgDone(c, w) ==
  /\ wpc[c][w] = "wgdone"
  /\ wg' = [wg EXCEPT ![c] = @ - 1]
  /\ wdep' = [wdep EXCEPT ![c][w] = 0]
  /\ wpc' = [wpc EXCEPT ![c][w] = "select"]
  /\ UNCHANGED <<cuDeps, cpc, spawned, idx, inq, done, stopsSent, started,
                 finished, stopsTaken, warned>>

\* WorkerStop that leaves the select but not the for loop (break for return)
WorkerStopNoReturn(c, w) ==
  /\ wpc[c][w] = "select"
  /\ done[c] > 0
  /\ done' = [done EXCEPT ![c] = @ - 1]
  /\ stopsTaken' = [stopsTaken EXCEPT ![c][w] = @ + 1]
  /\ wpc' = wpc
  /\ UNCHANGED <<cuDeps, cpc, spawned, idx, wg, inq, stopsSent, wdep,
                 started, finished, warned>>

\* select { case <-done: return
WorkerStop(c, w) ==
  /\ wpc[c][w] = "select"
  /\ done[c] > 0
  /\ done' = [done EXCEPT ![c] = @ - 1]
  /\ stopsTaken' = [stopsTaken EXCEPT ![c][w] = @ + 1]
  /\ wpc' = [wpc EXCEPT ![c][w] = "exited"]
  /\ UNCHANGED <<cuDeps, cpc, spawned, idx, wg, inq, stopsSent, wdep,
                 started, finished, warned>>

\* a stand-alone call ConcurrentUpdate(deps, cwd, i)
PoolCall ==
  /\ op = "ConcurrentUpdate"
  /\ \E deps \in SeqsUpTo(PoolDeps, MaxDeps) : CUEnter(1, deps)
  /\ UNCHANGED nonPoolVars

\* the calling goroutine of call c
CallerStep(c) ==
  /\ \/ Spawn(c)
     \/ WgAdd(c)
     \/ SendDep(c)
     \/ WgWait(c)
     \/ SendStop(c)
  /\ UNCHANGED nonPoolVars

\* worker goroutine w of call c
WorkerStep(c, w) ==
  /\ \/ WorkerRecv(c, w)
     \/ \E err \in {Nil, ErrFetch} : UpdateReturn(c, w, err)
     \/ WgDone(c, w)
     \/ WorkerStop(c, w)
  /\ UNCHANGED nonPoolVars

PoolStep ==
  \E c \in Calls : \/ CallerStep(c)
                    \/ \E w \in WorkerIds : WorkerStep(c, w)

PoolInit ==
  /\ op = "ConcurrentUpdate"
  /\ hang = 0
  /\ PoolIdle
  /\ UpdateIdle
  /\ AggIdle
  /\ HandlerIdle
  /\ InstallIdle
  /\ CheckoutIdle

PoolNext ==
  \/ PoolCall
  \/ PoolStep

PoolSpec == PoolInit /\ [][PoolNext]_vars

\* the Go scheduler runs every runnable goroutine, and every VcsUpdate returns
PoolFairness ==
  \A c \in Calls :
    /\ WF_vars(CallerStep(c))
    /\ \A w \in WorkerIds : WF_vars(WorkerStep(c, w))

FairPoolSpec == PoolSpec /\ PoolFairness

(* ---------------------------------------------------------------------- *)
(* ConcurrentUpdate with one VcsUpdate that never returns                  *)
(* ---------------------------------------------------------------------- *)

\* a stand-alone call in which VcsUpdate hangs on entry h
HangPoolCall ==
  /\ op = "ConcurrentUpdate"
  /\ hang = 0
  /\ \E deps \in SeqsUpTo(PoolDeps, MaxDeps) :
       /\ CUEnter(1, deps)
       /\ \E h \in 1..Len(deps) : hang' = h
  /\ UNCHANGED <<aggVars, handlerVars, installVars, checkoutVars, updateVars,
               op>>

\* worker goroutine w of call c; the VcsUpdate of entry hang does not return
HangWorkerStep(c, w) ==
  /\ \/ WorkerRecv(c, w)
     \/ /\ wdep[c][w] # hang
        /\ \E err \in {Nil, ErrFetch} : UpdateReturn(c, w, err)
     \/ WgDone(c, w)
     \/ WorkerStop(c, w)
  /\ UNCHANGED nonPoolVars

HangPoolNext ==
  \/ HangPoolCall
  \/ \E c \in Calls : \/ CallerStep(c)
                      \/ \E w \in WorkerIds : HangWorkerStep(c, w)

\* the scheduler is fair to every goroutine; only the one VcsUpdate hangs
HangPoolFairness ==
  \A c \in Calls :
    /\ WF_vars(CallerStep(c))
    /\ \A w \in WorkerIds : WF_vars(HangWorkerStep(c, w))

HangPoolSpec == PoolInit /\ [][HangPoolNext]_vars /\ HangPoolFairness

(* ---------------------------------------------------------------------- *)
(* Installer.Install: the early return and the two pool calls              *)
(* ---------------------------------------------------------------------- *)

\* InstallCheck without the early return
InstallCheckNoEarlyReturn ==
  /\ ipc = "check"
  /\ CUEnter(1, newConf.Imports)
  /\ ipc' = "imports"
  /\ UNCHANGED <<lock, newConf, iret>>
  /\ UNCHANGED <<aggVars, handlerVars, checkoutVars, updateVars, op, hang>>

\* if len(newConf.Imports) == 0 { return newConf, nil }
\* ConcurrentUpdate(newConf.Imports, cwd, i) is entered
InstallCheck ==
  /\ ipc = "check"
  /\ IF Len(newConf.Imports) = 0
       THEN /\ ipc' = "returned"
            /\ UNCHANGED poolVars
       ELSE /\ CUEnter(1, newConf.Imports)
            /\ ipc' = "imports"
  /\ UNCHANGED <<lock, newConf, iret>>
  /\ UNCHANGED <<aggVars, handlerVars, checkoutVars, updateVars, op, hang>>

\* the first pool call has returned;
\* ConcurrentUpdate(newConf.DevImports, cwd, i) is entered
InstallDevImports ==
  /\ ipc = "imports"
  /\ cpc[1] = "returned"
  /\ CUEnter(2, newConf.DevImports)
  /\ ipc' = "devImports"
  /\ UNCHANGED <<lock, newConf, iret>>
  /\ UNCHANGED <<aggVars, handlerVars, checkoutVars, updateVars, op, hang>>

\* the second pool call has returned; return newConf, nil
InstallReturn ==
  /\ ipc = "devImports"
  /\ cpc[2] = "returned"
  /\ ipc' = "returned"
  /\ UNCHANGED <<lock, newConf, iret>>
  /\ UNCHANGED <<poolVars, aggVars, handlerVars, checkoutVars, updateVars, op, hang>>

InstallInit ==
  /\ op = "Install"
  /\ hang = 0
  /\ PoolIdle
  /\ UpdateIdle
  /\ AggIdle
  /\ HandlerIdle
  /\ InstallIdle
  /\ CheckoutIdle

InstallCall ==
  /\ \E lk \in Locks, err \in {Nil, ErrVendor} : InstallVendor(lk, err)
  /\ UNCHANGED <<poolVars, aggVars, handlerVars, checkoutVars, updateVars, op, hang>>

InstallBuild ==
  /\ InstallProject
  /\ UNCHANGED <<poolVars, aggVars, handlerVars, checkoutVars, updateVars, op, hang>>

InstallNext ==
  \/ InstallCall
  \/ InstallBuild
  \/ InstallCheck
  \/ InstallDevImports
  \/ InstallReturn
  \/ PoolStep

InstallSpec == InstallInit /\ [][InstallNext]_vars

(* ---------------------------------------------------------------------- *)
(* Runs of Update                                                          *)
(* ---------------------------------------------------------------------- *)

UpdateInit ==
  /\ op = "Update"
  /\ hang = 0
  /\ PoolIdle
  /\ UpdateIdle
  /\ AggIdle
  /\ HandlerIdle
  /\ InstallIdle
  /\ CheckoutIdle

UpdateStart ==
  /\ \E conf \in UpdateConfs, err \in {Nil, ErrResolver},
        vendorErr \in {Nil, ErrVendor} : UpdateCall(conf, err, vendorErr)
  /\ UNCHANGED <<poolVars, aggVars, handlerVars, installVars, checkoutVars,
                 op, hang>>

\* the walk reaches a path that is in the vendor directory
UpdateWalkFound ==
  /\ \E p \in WalkPaths : WalkFound(p)
  /\ UNCHANGED <<poolVars, aggVars, handlerVars, installVars, checkoutVars,
                 op, hang>>

\* the walk reaches a path that has no working copy and calls NotFound
UpdateWalkNotFound ==
  /\ hcalls < MaxCalls
  /\ \E p \in WalkPaths :
       /\ WalkFound(p)
       /\ \E err \in {Nil, ErrFetch} : NotFound(p, err)
  /\ UNCHANGED <<poolVars, aggVars, installVars, checkoutVars, op, hang>>

\* the walk reaches a path that is on the GOPATH and calls OnGopath
UpdateWalkOnGopath ==
  /\ hcalls < MaxCalls
  /\ \E p \in WalkPaths :
       /\ WalkFound(p)
       /\ OnGopath(p)
  /\ UNCHANGED <<poolVars, aggVars, installVars, checkoutVars, op, hang>>

UpdateWalkEnd ==
  /\ \E ll \in Resolved(walk), err \in {Nil, ErrWalk} : WalkEnd(ll, err)
  /\ UNCHANGED <<poolVars, aggVars, handlerVars, installVars, checkoutVars,
                 op, hang>>

\* UpdateAggregate handing the pool one record per package path
UpdateAggregateNoMerge ==
  /\ upc = "aggregate"
  /\ AggCall(packages)
  /\ udeps' = [k \in DOMAIN packages |->
                 [Name |-> NormalizeName(packages[k])[1], Subpackages |-> <<>>]]
  /\ CUEnter(1, udeps')
  /\ upc' = "pool"
  /\ UNCHANGED <<uconf, walk, packages, uerr, uret>>
  /\ UNCHANGED <<handlerVars, installVars, checkoutVars, op, hang>>

\* deps := depsFromPackages(packages); ConcurrentUpdate(deps, base, i) is
\* entered
UpdateAggregate ==
  /\ upc = "aggregate"
  /\ AggCall(packages)
  /\ udeps' = depsFromPackages(packages)
  /\ CUEnter(1, udeps')
  /\ upc' = "pool"
  /\ UNCHANGED <<uconf, walk, packages, uerr, uret>>
  /\ UNCHANGED <<handlerVars, installVars, checkoutVars, op, hang>>

UpdateReturns ==
  /\ \E err \in {Nil, ErrHash} : UpdateFinish(err)
  /\ UNCHANGED <<poolVars, aggVars, handlerVars, installVars, checkoutVars,
                 op, hang>>

UpdateNext ==
  \/ UpdateStart
  \/ UpdateWalkFound
  \/ UpdateWalkNotFound
  \/ UpdateWalkOnGopath
  \/ UpdateWalkEnd
  \/ UpdateAggregate
  \/ UpdateReturns
  \/ PoolStep

UpdateSpec == UpdateInit /\ [][UpdateNext]_vars

(* ---------------------------------------------------------------------- *)
(* Runs of Checkout                                                        *)
(* ---------------------------------------------------------------------- *)

\* the vendor directory holds any of the targets when Checkout is first run
CheckoutInit ==
  /\ op = "Checkout"
  /\ hang = 0
  /\ PoolIdle
  /\ UpdateIdle
  /\ AggIdle
  /\ HandlerIdle
  /\ InstallIdle
  /\ fs \in SUBSET {Target(c) : c \in PoolDeps}
  /\ kconf = NoConf
  /\ kdev = FALSE
  /\ kpc = "idle"
  /\ ki = 0
  /\ krun = 0
  /\ krets = <<>>
  /\ kgets = <<>>

CheckoutFirst ==
  /\ \E conf \in Confs, useDev \in BOOLEAN : CheckoutCall(conf, useDev)
  /\ UNCHANGED <<poolVars, aggVars, handlerVars, installVars, updateVars, op, hang>>

CheckoutRerun ==
  /\ CheckoutAgain
  /\ UNCHANGED <<poolVars, aggVars, handlerVars, installVars, updateVars, op, hang>>

CheckoutExamine ==
  /\ \E err \in {Nil, ErrFetch}, partial \in BOOLEAN : CheckoutStep(err, partial)
  /\ UNCHANGED <<poolVars, aggVars, handlerVars, installVars, updateVars, op, hang>>

CheckoutEndOfList ==
  /\ CheckoutListEnd
  /\ UNCHANGED <<poolVars, aggVars, handlerVars, installVars, updateVars, op, hang>>

CheckoutNext ==
  \/ CheckoutFirst
  \/ CheckoutRerun
  \/ CheckoutExamine
  \/ CheckoutEndOfList

CheckoutSpec == CheckoutInit /\ [][CheckoutNext]_vars

(* ---------------------------------------------------------------------- *)
(* Stand-alone runs of depsFromPackages and of the handler                 *)
(* ---------------------------------------------------------------------- *)

AggInit ==
  /\ op = "depsFromPackages"
  /\ hang = 0
  /\ PoolIdle
  /\ UpdateIdle
  /\ AggIdle
  /\ HandlerIdle
  /\ InstallIdle
  /\ CheckoutIdle

AggNext ==
  /\ \E ps \in SeqsUpTo(PkgPaths, MaxPkgs) : AggCall(ps)
  /\ UNCHANGED <<poolVars, handlerVars, installVars, checkoutVars, updateVars, op, hang>>

AggSpec == AggInit /\ [][AggNext]_vars

HandlerInit ==
  /\ op = "MissingPackageHandler"
  /\ hang = 0
  /\ PoolIdle
  /\ UpdateIdle
  /\ AggIdle
  /\ HandlerIdle
  /\ InstallIdle
  /\ CheckoutIdle

\* the resolver calls the handler for a package it did not find
ResolverNotFound ==
  /\ hcalls < MaxCalls
  /\ \E pkg \in PkgPaths, err \in {Nil, ErrFetch} : NotFound(pkg, err)
  /\ UNCHANGED <<poolVars, aggVars, installVars, checkoutVars, updateVars, op, hang>>

\* the resolver calls the handler for a package it found on the GOPATH
ResolverOnGopath ==
  /\ hcalls < MaxCalls
  /\ \E pkg \in PkgPaths : OnGopath(pkg)
  /\ UNCHANGED <<poolVars, aggVars, installVars, checkoutVars, updateVars, op, hang>>

HandlerNext ==
  \/ ResolverNotFound
  \/ ResolverOnGopath

HandlerSpec == HandlerInit /\ [][HandlerNext]_vars

(* ---------------------------------------------------------------------- *)
(* Properties of ConcurrentUpdate                                          *)
(* ---------------------------------------------------------------------- *)

InProgress(c) == {w \in WorkerIds : wpc[c][w] = "update"}
Entries(c) == 1..Len(cuDeps[c])

\* C1: when ConcurrentUpdate has returned, VcsUpdate has been started exactly
\* once and has returned exactly once for every entry of the list, and no
\* VcsUpdate is in progress.
C1_AllAttemptedOnceAtReturn ==
  \A c \in Calls :
    cpc[c] = "returned" =>
      /\ \A k \in Entries(c) : started[c][k] = 1 /\ finished[c][k] = 1
      /\ InProgress(c) = {}

\* a call with more entries than workers has returned
C1_Witness ==
  /\ cpc[1] = "returned"
  /\ Len(cuDeps[1]) > W
  /\ \A k \in Entries(1) : started[1][k] = 1

\* C2: at most W updates are in progress and at most W entries are buffered
\* in the work queue, in every state.
C2_BoundedConcurrency ==
  \A c \in Calls :
    /\ Cardinality(InProgress(c)) <= W
    /\ Len(inq[c]) <= W

\* W updates in progress while the queue is full too (needs N > W)
C2_Witness ==
  /\ Cardinality(InProgress(1)) = W
  /\ Len(inq[1]) >= 1
  /\ Len(cuDeps[1]) > W

\* C3: under fair scheduling, with every update terminating, a call that has
\* been entered returns, whichever updates fail.
C3_EventuallyReturns ==
  \A c \in Calls : (cpc[c] = "spawn") ~> (cpc[c] = "returned")

\* a call with more entries than workers has returned although every update
\* failed (so a worker that saw a failure took further work)
C3_Witness ==
  /\ cpc[1] = "returned"
  /\ Len(cuDeps[1]) > W
  /\ warned[1] = Entries(1)

\* C4: once the wait is over, W stop signals are sent, every one of the W
\* workers takes exactly one and exits, and none is left in the channel.
AllWorkersExited(c) ==
  /\ stopsSent[c] = W
  /\ done[c] = 0
  /\ \A w \in Workers : wpc[c][w] = "exited" /\ stopsTaken[c][w] = 1
  /\ \A w \in WorkerIds \ Workers : wpc[c][w] = "none"

C4_WorkersExit ==
  \A c \in Calls : (cpc[c] = "stop") ~> AllWorkersExited(c)

C4_Witness ==
  /\ AllWorkersExited(1)
  /\ cpc[1] = "returned"
  /\ Len(cuDeps[1]) > 0

(* ---------------------------------------------------------------------- *)
(* Properties of depsFromPackages                                          *)
(* ---------------------------------------------------------------------- *)

RootOf(p) == NormalizeName(p)[1]
SuffixOf(p) == NormalizeName(p)[2]

\* position of the first path of ps with root r
FirstAt(ps, r) ==
  CHOOSE k \in 1..Len(ps) :
    /\ RootOf(ps[k]) = r
    /\ \A j \in 1..(k - 1) : RootOf(ps[j]) # r

\* the non-empty suffixes of the paths of ps with root r, in input order
RECURSIVE SuffixesOf(_, _)
SuffixesOf(ps, r) ==
  IF ps = <<>> THEN <<>>
  ELSE IF RootOf(Head(ps)) = r /\ SuffixOf(Head(ps)) # Empty
    THEN <<SuffixOf(Head(ps))>> \o SuffixesOf(Tail(ps), r)
    ELSE SuffixesOf(Tail(ps), r)

\* C5: the output of depsFromPackages holds exactly one record per distinct
\* repository root of the input, ordered by the root's first occurrence.
C5_OnePerRootInFirstSeenOrder ==
  aggPc = "returned" =>
    /\ {aggDeps[i].Name : i \in DOMAIN aggDeps}
         = {RootOf(pkgs[k]) : k \in DOMAIN pkgs}
    /\ \A i, j \in DOMAIN aggDeps :
         i < j => /\ aggDeps[i].Name # aggDeps[j].Name
                  /\ FirstAt(pkgs, aggDeps[i].Name)
                       < FirstAt(pkgs, aggDeps[j].Name)

\* b/sub1, a, b: two roots, one of them twice, first seen in the order b, a
C5_Witness ==
  /\ aggPc = "returned"
  /\ pkgs = << <<"b", "sub1">>, <<"a">>, <<"b">> >>
  /\ Len(aggDeps) = 2
  /\ aggDeps[1].Name = <<"b">>
  /\ aggDeps[2].Name = <<"a">>

\* C6: the Subpackages of each record are the non-empty suffixes of the
\* input paths with the record's root, in input order, repetitions kept;
\* the empty string is never among them.
C6_SubpackagesKeepOrderAndRepeats ==
  aggPc = "returned" =>
    \A i \in DOMAIN aggDeps :
      /\ aggDeps[i].Subpackages = SuffixesOf(pkgs, aggDeps[i].Name)
      /\ \A j \in DOMAIN aggDeps[i].Subpackages :
           aggDeps[i].Subpackages[j] # Empty

\* a/sub1, a/sub2, a/sub1 gives one record with [sub1, sub2, sub1]
C6_Witness ==
  /\ aggPc = "returned"
  /\ pkgs = << <<"a", "sub1">>, <<"a", "sub2">>, <<"a", "sub1">> >>
  /\ aggDeps = << [Name |-> <<"a">>,
                   Subpackages |-> << <<"sub1">>, <<"sub2">>, <<"sub1">> >>] >>

(* ---------------------------------------------------------------------- *)
(* Properties of the MissingPackageHandler                                 *)
(* ---------------------------------------------------------------------- *)

\* C7: a NotFound call makes exactly one VcsGet call and answers (true, nil)
\* when it succeeded and (false, its error) when it failed; an OnGopath call
\* makes no VcsGet call and answers (false, nil).
C7_HandlerStep ==
  hcalls' # hcalls =>
    /\ hret'.op = "NotFound" =>
         /\ Len(vcsGets') = Len(vcsGets) + 1
         /\ SubSeq(vcsGets', 1, Len(vcsGets)) = vcsGets
         /\ LET g == vcsGets'[Len(vcsGets')]
            IN IF g.err = Nil
                 THEN hret'.handled /\ hret'.err = Nil
                 ELSE ~hret'.handled /\ hret'.err = g.err
    /\ hret'.op = "OnGopath" =>
         /\ vcsGets' = vcsGets
         /\ ~hret'.handled
         /\ hret'.err = Nil

C7_HandlerResults == [][C7_HandlerStep]_vars

\* a failed NotFound followed by an OnGopath
C7_Witness ==
  /\ hcalls = 2
  /\ hret.op = "OnGopath"
  /\ Len(vcsGets) = 1
  /\ vcsGets[1].err = ErrFetch

\* C8: NotFound fetches the repository root of the package: the dependency
\* is named by the normalized root and the target is destination/root.
C8_NotFoundFetchesRoot ==
  hret.op = "NotFound" =>
    LET g == vcsGets[Len(vcsGets)]
    IN /\ g.Name = RootOf(hret.pkg)
       /\ g.dest = filepathJoin(destination, RootOf(hret.pkg))

(* ---------------------------------------------------------------------- *)
(* Properties of Install                                                   *)
(* ---------------------------------------------------------------------- *)

\* newConf has been filled and de-duplicated
Built == ipc \in {"check", "imports", "devImports"}
           \/ (ipc = "returned" /\ iret = Nil)

\* no goroutine was started and no VcsUpdate was called in call c
Untouched(c) ==
  /\ cpc[c] = "idle"
  /\ spawned[c] = 0
  /\ \A w \in WorkerIds : wpc[c][w] = "none"

\* every record of deps had exactly one VcsUpdate, in call c
UpdatedOnce(c, deps) ==
  /\ cuDeps[c] = deps
  /\ cpc[c] = "returned"
  /\ \A k \in DOMAIN deps : started[c][k] = 1 /\ finished[c][k] = 1

\* C9: when Install has returned normally, nothing was fetched only if both
\* de-duplicated lists are empty; otherwise every import and every
\* dev-import had its update attempted exactly once.
C9_InstallUpdatesEveryRecord ==
  (ipc = "returned" /\ iret = Nil) =>
    IF newConf.Imports = <<>> /\ newConf.DevImports = <<>>
      THEN Untouched(1) /\ Untouched(2)
      ELSE /\ UpdatedOnce(1, newConf.Imports)
           /\ UpdatedOnce(2, newConf.DevImports)

\* C10: with an empty de-duplicated import list Install returns nil and
\* starts no worker and no update.
C10_EmptyImportsNoFetch ==
  (Built /\ newConf.Imports = <<>>) =>
    /\ ipc \in {"check", "returned"}
    /\ iret = Nil
    /\ Untouched(1)
    /\ Untouched(2)

\* Install has returned on an empty import list, dev-imports being locked
C10_Witness ==
  /\ ipc = "returned"
  /\ iret = Nil
  /\ newConf.Imports = <<>>
  /\ newConf.DevImports # <<>>

(* ---------------------------------------------------------------------- *)
(* Properties of Checkout                                                  *)
(* ---------------------------------------------------------------------- *)

\* checkoutImports is about to examine an entry
Examining == kpc \in {"imports", "devImports"} /\ ki <= Len(CheckoutList)

\* C11: in a run of Checkout that follows a run (same conf, same useDev) that
\* returned nil, no VcsGet is called, nothing on disk changes, and the run
\* returns nil again.
C11_RerunStep ==
  (krun' >= 2 /\ krets[krun' - 1] = Nil) =>
    /\ kgets' = kgets
    /\ fs' = fs
    /\ kpc' = "returned" => krets'[krun'] = Nil

C11_RerunFetchesNothing == [][C11_RerunStep]_vars

\* a second run has returned after a first run that fetched an import and a
\* dev-import
C11_Witness ==
  /\ krun = 2
  /\ kpc = "returned"
  /\ krets = <<Nil, Nil>>
  /\ kdev
  /\ Len(kgets) = 2
  /\ kgets[1].run = 1 /\ kgets[1].list = "imports"
  /\ kgets[2].run = 1 /\ kgets[2].list = "devImports"

\* C12: an entry whose target exists when it is examined is not fetched, an
\* entry whose target is absent gets exactly one VcsGet, on that target, and
\* dev-imports are examined only when useDev is set.
C12_ExamineStep ==
  /\ IF Examining
       THEN LET c == CheckoutList[ki]
            IN IF Target(c) \in fs
                 THEN kgets' = kgets /\ fs' = fs
                 ELSE /\ Len(kgets') = Len(kgets) + 1
                      /\ SubSeq(kgets', 1, Len(kgets)) = kgets
                      /\ kgets'[Len(kgets')].Name = c.Name
                      /\ kgets'[Len(kgets')].target = Target(c)
       ELSE kgets' = kgets
  /\ kpc' = "devImports" => kdev'

C12_FetchOnlyAbsent == [][C12_ExamineStep]_vars

\* the first import was found on disk and skipped, the second was fetched,
\* and the dev-imports are being examined
C12_Witness ==
  /\ kpc = "devImports"
  /\ kdev
  /\ kconf.DevImports # <<>>
  /\ Len(kgets) = 1
  /\ kgets[1].pos = 2
  /\ kgets[1].list = "imports"

\* C20: a failed VcsGet ends the run at once with that error: it is the
\* last VcsGet of its run, the walk stops at its entry, and what earlier
\* calls fetched is still on disk.
C20_FailFast ==
  \A j \in DOMAIN kgets :
    LET e == kgets[j]
    IN /\ e.err = Nil => e.target \in fs
       /\ e.err # Nil =>
            /\ Len(krets) >= e.run
            /\ krets[e.run] = e.err
            /\ \A n \in DOMAIN kgets : n > j => kgets[n].run > e.run
            /\ e.run = krun => kpc = "returned" /\ ki = e.pos

\* the second import failed after the first was fetched; useDev is set and
\* there are dev-imports, none of them fetched
C20_Witness ==
  /\ kpc = "returned"
  /\ krun = 1
  /\ kdev
  /\ kconf.DevImports # <<>>
  /\ Len(kgets) = 2
  /\ kgets[1].err = Nil
  /\ kgets[1].target \in fs
  /\ kgets[2].err = ErrFetch
  /\ kgets[2].list = "imports"
  /\ krets = <<ErrFetch>>

(* ---------------------------------------------------------------------- *)
(* Further properties of ConcurrentUpdate                                  *)
(* ---------------------------------------------------------------------- *)

\* a stop signal has been sent or taken in call c
Stopping(c) ==
  \/ stopsSent[c] > 0
  \/ done[c] > 0
  \/ \E w \in WorkerIds : wpc[c][w] = "exited" \/ stopsTaken[c][w] > 0

\* C16: while an entry is still to be queued, is queued or is with a worker,
\* no stop signal has been sent and no worker has exited.
C16_NoStopBeforeAllDone ==
  \A c \in Calls :
    Stopping(c) =>
      /\ idx[c] = Len(cuDeps[c])
      /\ inq[c] = <<>>
      /\ \A w \in WorkerIds : wpc[c][w] \in {"none", "select", "exited"}

\* the first stop signal has been taken by a worker, the other is still to
\* be sent, in a call with more entries than workers
C16_Witness ==
  /\ stopsSent[1] = 1
  /\ \E w \in Workers : wpc[1][w] = "exited"
  /\ \E w \in Workers : wpc[1][w] = "select"
  /\ Len(cuDeps[1]) > W

\* the one VcsUpdate that hangs is in progress, every other entry has been
\* updated, the other workers wait at the select and the caller in wg.Wait
HangFinal ==
  /\ cpc[1] = "wait"
  /\ \A k \in Entries(1) : started[1][k] = 1
  /\ \A k \in Entries(1) \ {hang} : finished[1][k] = 1
  /\ finished[1][hang] = 0
  /\ \E w \in Workers :
       /\ wpc[1][w] = "update" /\ wdep[1][w] = hang
       /\ \A v \in Workers \ {w} : wpc[1][v] = "select"

\* C17: when one VcsUpdate never returns, every other entry is still
\* updated by the remaining workers and exactly one worker is held, while
\* the call never returns and never sends a stop signal.
C17_OneHangStallsOneWorker ==
  /\ [](hang # 0 => /\ cpc[1] \notin {"stop", "returned"}
                    /\ stopsSent[1] = 0
                    /\ done[1] = 0)
  /\ (hang # 0) ~> HangFinal

\* the first of three entries hangs and the other two have been updated
C17_Witness ==
  /\ hang = 1
  /\ Len(cuDeps[1]) = 3
  /\ HangFinal

\* the workers that hold an entry: its VcsUpdate is in progress, or has
\* returned with wg.Done() still to come
Holding(c) == {w \in WorkerIds : wpc[c][w] \in {"update", "wgdone"}}

\* the entry the caller has counted with wg.Add(1) and not yet sent
Unsent(c) == IF cpc[c] = "send" THEN 1 ELSE 0

\* C18 as stated: the counter is the number of queued entries plus the
\* number of updates in progress plus the entry counted but not yet queued.
C18_CounterIsQueuedPlusInProgress ==
  \A c \in Calls :
    /\ wg[c] >= 0
    /\ wg[c] = Len(inq[c]) + Cardinality(InProgress(c)) + Unsent(c)
    /\ cpc[c] \in {"stop", "returned"} => inq[c] = <<>> /\ InProgress(c) = {}

\* C18 amended: the workers whose update has returned and whose wg.Done()
\* has not run yet are counted too.
C18_CounterIsQueuedPlusHeld ==
  \A c \in Calls :
    /\ wg[c] >= 0
    /\ wg[c] = Len(inq[c]) + Cardinality(Holding(c)) + Unsent(c)
    /\ cpc[c] \in {"stop", "returned"} => inq[c] = <<>> /\ Holding(c) = {}

\* the counter is 3: one update in progress, one returned and not yet
\* acknowledged, one entry counted and not yet sent
C18_Witness ==
  /\ cpc[1] = "send"
  /\ wg[1] = 3
  /\ \E w \in Workers : wpc[1][w] = "update"
  /\ \E w \in Workers : wpc[1][w] = "wgdone"

\* the entries of call c whose VcsUpdate has been started
Started(c) == {k \in Entries(c) : started[c][k] >= 1}

ResolvingFailed == uerr \in {ErrResolver, ErrVendor, ErrWalk}

\* C13: when constructing the resolver fails or the resolver's walk fails,
\* Update has stopped in the Resolving phase: depsFromPackages was not
\* called, neither pool call was entered and no worker exists, nothing was
\* returned, and no step follows (nothing is retried).
C13_ResolvingFailureIsFatal ==
  [][/\ ResolvingFailed' =>
          /\ upc' = "died"
          /\ aggPc' = "idle"
          /\ udeps' = <<>>
          /\ Untouched(1)'
          /\ Untouched(2)'
          /\ uret' = NoRet
     /\ ~ResolvingFailed]_vars

\* the walk failed after it had reached two paths and fetched one of them
C13_Witness ==
  /\ uerr = ErrWalk
  /\ upc = "died"
  /\ Len(walk) = 2
  /\ Len(vcsGets) = 1

(* ---------------------------------------------------------------------- *)
(* Update: the lock record                                                 *)
(* ---------------------------------------------------------------------- *)

\* C14: when Update has returned and conf.Hash() gave no error, it returned
\* no error and a lock whose dependency list is what depsFromPackages
\* produced from the resolved packages and whose hash is the hash of the
\* conf it was given, whichever of the updates failed.
C14_LockDespiteUpdateFailures ==
  (upc = "returned" /\ uerr = Nil) =>
    /\ aggDeps = depsFromPackages(packages)
    /\ udeps = aggDeps
    /\ uret = [lock |-> NewLockfile(aggDeps, Hash(uconf)), err |-> Nil]

\* Update returned a lock of two dependencies after both updates failed
C14_Witness ==
  /\ upc = "returned"
  /\ uerr = Nil
  /\ Len(uret.lock.Imports) = 2
  /\ warned[1] = {1, 2}

\* Update returned a lock of two dependencies after one of two updates failed
C14_WitnessOneFailed ==
  /\ upc = "returned"
  /\ uerr = Nil
  /\ Len(uret.lock.Imports) = 2
  /\ warned[1] = {2}

(* ---------------------------------------------------------------------- *)
(* Update: one worker per repository root                                  *)
(* ---------------------------------------------------------------------- *)

\* the repository root worker w of call c is updating
Updating(c, w) == cuDeps[c][wdep[c][w]].Name

\* C15: in the pool call of Update, two workers that are inside VcsUpdate at
\* the same time are updating different repository roots, whatever the
\* resolver returned; no record of deps is taken by two workers, and when
\* the call has returned every record was taken by exactly one.
C15_OneWorkerPerRoot ==
  upc \in {"pool", "returned"} =>
    /\ \A w1, w2 \in InProgress(1) :
         w1 # w2 => Updating(1, w1) # Updating(1, w2)
    /\ \A k \in Entries(1) : started[1][k] <= 1
    /\ cpc[1] = "returned" => \A k \in Entries(1) : started[1][k] = 1

\* the resolver returned two paths of one root and one path of another, and
\* both roots are being updated at once
C15_Witness ==
  /\ upc = "pool"
  /\ Len(packages) = 3
  /\ Len(cuDeps[1]) = 2
  /\ Cardinality(InProgress(1)) = 2

====
